---------------------------- MODULE Spec2Model ----------------------------
(***************************************************************************)
(* Model of netcider.py: the CIDR class (construction, update, the pure    *)
(* helpers that derive netmask, wildcard, subnet, host range, host count   *)
(* and the address list) and the command line driver.                      *)
(*                                                                         *)
(* Python strings are sequences of characters, a character being a         *)
(* one-character string, or, beyond U+00FF where a string literal cannot   *)
(* hold it, the name of its code point ("U+0663"); Python lists are        *)
(* sequences; Python ints of unbounded size are either TLA+ integers       *)
(* (when they stay small) or little-endian sequences of decimal digits     *)
(* (the host count, which reaches 2^32).  A call that may raise returns a  *)
(* record [exc, val]: exc = "None" when it returns val normally.           *)
(***************************************************************************)
EXTENDS Integers, Sequences, FiniteSets, TLC

\* ------------------------------------------------------------------------
\* Python built-ins used by the source
\* ------------------------------------------------------------------------

Ok(v) == [exc |-> "None", val |-> v]

Raise(e) == [exc |-> e, val |-> <<>>]

Digits == <<"0", "1", "2", "3", "4", "5", "6", "7", "8", "9">>

\* c is one of the digits 0-9 of ASCII
IsDigit(c) == \E d \in 1..10 : Digits[d] = c

HexDigits == <<"0", "1", "2", "3", "4", "5", "6", "7", "8", "9", "A", "B", "C", "D", "E", "F">>

RECURSIVE Hex(_)
Hex(n) == IF n < 16 THEN HexDigits[n + 1] ELSE Hex(n \div 16) \o HexDigits[(n % 16) + 1]

\* the name of the character with code point n > 255
CodePoint(n) == "U+" \o (IF n < 4096 THEN "0" ELSE "") \o Hex(n)

\* code points of the digit zero of the scripts int() reads besides ASCII
\* (Arabic-Indic U+0660, Devanagari U+0966, fullwidth U+FF10, ...); the
\* digits one to nine follow each of them
DigitZeros ==
    {1632, 1776, 1984, 2406, 2534, 2662, 2790, 2918,
     3046, 3174, 3302, 3430, 3558, 3664, 3792, 3872,
     4160, 4240, 6112, 6160, 6470, 6608, 6784, 6800,
     6992, 7088, 7232, 7248, 42528, 43216, 43264, 43472,
     43504, 43600, 44016, 65296, 66720, 68912, 69734, 69872,
     69942, 70096, 70384, 70736, 70864, 71248, 71360, 71472,
     71904, 72016, 72784, 73040, 73120, 92768, 92864, 93008,
     120782, 120792, 120802, 120812, 120822, 123200, 123632, 125264,
     130032}

\* the value of each of these digits
UnicodeDigitVal ==
    [c \in {CodePoint(z + d) : z \in DigitZeros, d \in 0..9} |->
        CHOOSE d \in 0..9 : \E z \in DigitZeros : c = CodePoint(z + d)]

\* the characters int() reads as decimal digits
DecDigits == {Digits[d] : d \in 1..10} \cup DOMAIN UnicodeDigitVal

\* those it reads as binary digits
Base2Digits == {"0", "1"} \cup {c \in DOMAIN UnicodeDigitVal : UnicodeDigitVal[c] < 2}

DigitVal(c) ==
    IF IsDigit(c) THEN (CHOOSE d \in 1..10 : Digits[d] = c) - 1 ELSE UnicodeDigitVal[c]

\* str(n) for an int n
RECURSIVE str(_)
str(n) ==
    IF n < 0 THEN <<"-">> \o str(-n)
    ELSE IF n < 10 THEN <<Digits[n + 1]>>
    ELSE str(n \div 10) \o <<Digits[(n % 10) + 1]>>

\* value of a string of decimal digits
RECURSIVE DecVal(_)
DecVal(s) ==
    IF s = <<>> THEN 0
    ELSE 10 * DecVal(SubSeq(s, 1, Len(s) - 1)) + DigitVal(s[Len(s)])

\* the whitespace int() strips from both ends of its text: tab, newline,
\* vertical tab (U+000B), form feed, carriage return, the blank, next line
\* (U+0085), no-break space (U+00A0) and the spaces of Unicode beyond
Whitespace ==
    {"\t", "\n", "", "\f", "\r", " ", "", " "}
        \cup {"U+1680", "U+2000", "U+2001", "U+2002", "U+2003", "U+2004",
               "U+2005", "U+2006", "U+2007", "U+2008", "U+2009", "U+200A",
               "U+2028", "U+2029", "U+202F", "U+205F", "U+3000"}

\* s from its first character that is not whitespace
lstrip(s) ==
    IF \A i \in 1..Len(s) : s[i] \in Whitespace THEN <<>>
    ELSE SubSeq(s, CHOOSE i \in 1..Len(s) :
                       s[i] \notin Whitespace /\ \A j \in 1..(i - 1) : s[j] \in Whitespace,
                Len(s))

\* s up to its last character that is not whitespace
rstrip(s) ==
    IF \A i \in 1..Len(s) : s[i] \in Whitespace THEN <<>>
    ELSE SubSeq(s, 1, CHOOSE i \in 1..Len(s) :
                          s[i] \notin Whitespace /\ \A j \in (i + 1)..Len(s) : s[j] \in Whitespace)

strip(s) == CHOOSE r \in {rstrip(l) : l \in {lstrip(s)}} : TRUE

\* s without its underscores
NoUnderscore(s) == SelectSeq(s, LAMBDA c : c # "_")

\* a string of digits without its leading zeros
NoLeadingZeros(s) ==
    IF \A i \in 1..Len(s) : DigitVal(s[i]) = 0 THEN <<>>
    ELSE SubSeq(s, CHOOSE i \in 1..Len(s) :
                       DigitVal(s[i]) # 0 /\ \A j \in 1..(i - 1) : DigitVal(s[j]) = 0,
                Len(s))

\* sys.get_int_max_str_digits(): the most digits int() converts in a base
\* that is not a power of two
MaxStrDigits == 4300

\* digits of the set ds with single underscores between them; after a base
\* prefix (lead) one underscore may also come first
Grouped(s, ds, lead) ==
    /\ s # <<>>
    /\ \A i \in 1..Len(s) : s[i] \in ds \/ s[i] = "_"
    /\ s[Len(s)] # "_"
    /\ lead \/ s[1] # "_"
    /\ \A i \in 1..(Len(s) - 1) : ~(s[i] = "_" /\ s[i + 1] = "_")

\* what int() makes of a text t without surrounding whitespace: an optional
\* sign, then at most MaxStrDigits decimal digits that single underscores
\* may separate
Decimal(t) ==
    LET signed == t # <<>> /\ t[1] \in {"+", "-"}
        body == IF signed THEN Tail(t) ELSE t
    IN  IF Grouped(body, DecDigits, FALSE) /\ Len(NoUnderscore(body)) <= MaxStrDigits
        THEN Ok((IF signed /\ t[1] = "-" THEN -1 ELSE 1)
                * (CHOOSE v \in {DecVal(z) : z \in {NoLeadingZeros(NoUnderscore(body))}} : TRUE))
        ELSE Raise("ValueError")

\* int(s)
int(s) == CHOOSE r \in {Decimal(t) : t \in {strip(s)}} : TRUE

\* value of a string of binary digits
RECURSIVE BinVal(_)
BinVal(s) ==
    IF s = <<>> THEN 0
    ELSE 2 * BinVal(SubSeq(s, 1, Len(s) - 1)) + DigitVal(s[Len(s)])

\* what int(s, 2) makes of a text u without surrounding whitespace: an
\* optional sign, an optional 0b or 0B prefix (with the zero of any script),
\* then binary digits, however many, that single underscores may separate
Binary(u) ==
    LET signed == u # <<>> /\ u[1] \in {"+", "-"}
        t == IF signed THEN Tail(u) ELSE u
        prefixed == /\ Len(t) >= 2
                    /\ t[1] \in DecDigits /\ DigitVal(t[1]) = 0
                    /\ t[2] \in {"b", "B"}
        body == IF prefixed THEN SubSeq(t, 3, Len(t)) ELSE t
    IN  IF Grouped(body, Base2Digits, prefixed)
        THEN Ok((IF signed /\ u[1] = "-" THEN -1 ELSE 1)
                * (CHOOSE v \in {BinVal(z) : z \in {NoLeadingZeros(NoUnderscore(body))}} : TRUE))
        ELSE Raise("ValueError")

\* int(s, 2)
int2(s) == CHOOSE r \in {Binary(u) : u \in {strip(s)}} : TRUE

\* binary digits of n >= 0 without leading zeros
RECURSIVE BinDigits(_)
BinDigits(n) ==
    IF n < 2 THEN <<Digits[n + 1]>>
    ELSE BinDigits(n \div 2) \o <<Digits[(n % 2) + 1]>>

\* bin(n): "0b..." for n >= 0, "-0b..." for n < 0
bin(n) ==
    IF n < 0 THEN <<"-", "0", "b">> \o BinDigits(-n)
    ELSE <<"0", "b">> \o BinDigits(n)

\* c * n for a one-character string c (empty when n <= 0)
repeat(c, n) == [i \in 1..(IF n > 0 THEN n ELSE 0) |-> c]

\* s.zfill(w): pad with zeros on the left, after a leading sign
zfill(s, w) ==
    IF Len(s) >= w THEN s
    ELSE IF s # <<>> /\ s[1] \in {"+", "-"}
         THEN <<s[1]>> \o repeat("0", w - Len(s)) \o Tail(s)
         ELSE repeat("0", w - Len(s)) \o s

\* s.find(c): 0-based position of the first c in s, -1 when absent
find(s, c) ==
    IF \E i \in 1..Len(s) : s[i] = c
    THEN (CHOOSE i \in 1..Len(s) : s[i] = c /\ \A j \in 1..(i - 1) : s[j] # c) - 1
    ELSE -1

\* s.index(c): as find, raising ValueError when absent
index(s, c) == IF find(s, c) < 0 THEN Raise("ValueError") ELSE Ok(find(s, c))

\* s.split(c)
RECURSIVE split(_, _)
split(s, c) ==
    LET i == find(s, c)
    IN  IF i < 0 THEN <<s>>
        ELSE <<SubSeq(s, 1, i)>> \o split(SubSeq(s, i + 2, Len(s)), c)

\* c.join(l)
RECURSIVE join(_, _)
join(l, c) ==
    IF l = <<>> THEN <<>>
    ELSE IF Len(l) = 1 THEN l[1]
    ELSE l[1] \o <<c>> \o join(Tail(l), c)

\* list(map(f, l)) where f may raise: the first exception, else the list
MapInt(l) ==
    LET r == [i \in 1..Len(l) |-> int(l[i])]
    IN  IF \E i \in 1..Len(l) : r[i].exc # "None"
        THEN Raise("ValueError")
        ELSE Ok([i \in 1..Len(l) |-> r[i].val])

Min(a, b) == IF a < b THEN a ELSE b

\* list(map(''.join, zip(*[iter(s)] * 8))): the full groups of 8 characters
zip8(s) == [k \in 1..(Len(s) \div 8) |-> SubSeq(s, 8 * (k - 1) + 1, 8 * k)]

\* ------------------------------------------------------------------------
\* Unbounded non-negative ints as little-endian decimal digit sequences
\* ------------------------------------------------------------------------

RECURSIVE IntToBig(_)
IntToBig(n) == IF n < 10 THEN <<n>> ELSE <<n % 10>> \o IntToBig(n \div 10)

RECURSIVE BigMulCarry(_, _, _)
BigMulCarry(a, k, carry) ==
    IF a = <<>> THEN (IF carry = 0 THEN <<>> ELSE IntToBig(carry))
    ELSE LET t == a[1] * k + carry
         IN  <<t % 10>> \o BigMulCarry(Tail(a), k, t \div 10)

\* operator.mul(a, k) for a big a and a small k >= 0
BigMul(a, k) == IF k = 0 THEN <<0>> ELSE BigMulCarry(a, k, 0)

BigPositive(a) == \E i \in 1..Len(a) : a[i] > 0

\* str(a) for a big a (of at most MaxStrDigits digits, as every host count is)
BigStr(a) == [i \in 1..Len(a) |-> Digits[a[Len(a) + 1 - i] + 1]]

\* reduce(operator.mul, l) for a non-empty list of small ints
RECURSIVE ReduceMul(_)
ReduceMul(l) ==
    IF Len(l) = 1 THEN IntToBig(l[1])
    ELSE BigMul(ReduceMul(SubSeq(l, 1, Len(l) - 1)), l[Len(l)])

\* x & y for ints x, y >= 0
RECURSIVE BitAnd(_, _)
BitAnd(x, y) ==
    IF x = 0 \/ y = 0 THEN 0
    ELSE 2 * BitAnd(x \div 2, y \div 2) + (IF x % 2 = 1 /\ y % 2 = 1 THEN 1 ELSE 0)

\* bin(n)[2:].zfill(8)
bin8(n) == LET b == bin(n) IN zfill(SubSeq(b, 3, Len(b)), 8)

\* ------------------------------------------------------------------------
\* class CIDR: static helpers
\* ------------------------------------------------------------------------

\* CIDR.list_to_string on a list of ints: '.'.join(map(str, ipList))
list_to_string(ipList) == join([i \in 1..Len(ipList) |-> str(ipList[i])], ".")

\* CIDR.address_to_bin: [bin(int(val))[2:].zfill(8) for val in address.split('.')]
address_to_bin(address) ==
    LET vals == MapInt(split(address, "."))
    IN  IF vals.exc # "None" THEN vals
        ELSE Ok([i \in 1..Len(vals.val) |-> bin8(vals.val[i])])

\* CIDR.bin_to_address: [int(val, 2) for val in binAddress]
bin_to_address(binAddress) ==
    IF \E i \in 1..Len(binAddress) : int2(binAddress[i]).exc # "None"
    THEN Raise("ValueError")
    ELSE Ok([i \in 1..Len(binAddress) |-> int2(binAddress[i]).val])

\* ------------------------------------------------------------------------
\* class CIDR: derivations
\* ------------------------------------------------------------------------

\* binMask built one character short: '0'*(31-int(mask))
binMask_short(n) == repeat("1", n) \o repeat("0", 31 - n)

\* '%s%s' % ('1'*int(mask), '0'*(32-int(mask))) for an int n
binMask(n) == repeat("1", n) \o repeat("0", 32 - n)

\* CIDR.calculate_netmask(mask) for the text mask after the '/'
calculate_netmask(mask) ==
    LET n == int(mask)
    IN  IF n.exc # "None" THEN n
        ELSE LET netmask == bin_to_address(zip8(binMask(n.val)))
             IN  IF netmask.exc # "None" THEN netmask
                 ELSE Ok(list_to_string(netmask.val))

\* calculate_wildcard inverting with 256 - val instead of 255 - val
calculate_wildcard_256(mask) ==
    LET n == int(mask)
    IN  IF n.exc # "None" THEN n
        ELSE LET netmask == bin_to_address(zip8(binMask(n.val)))
             IN  IF netmask.exc # "None" THEN netmask
                 ELSE Ok(list_to_string([i \in 1..Len(netmask.val) |-> 256 - netmask.val[i]]))

\* CIDR.calculate_wildcard(mask)
calculate_wildcard(mask) ==
    LET n == int(mask)
    IN  IF n.exc # "None" THEN n
        ELSE LET netmask == bin_to_address(zip8(binMask(n.val)))
             IN  IF netmask.exc # "None" THEN netmask
                 ELSE Ok(list_to_string([i \in 1..Len(netmask.val) |-> 255 - netmask.val[i]]))

\* network returning the address octets without the AND with the netmask
network_noand(address, netmask) ==
    LET a == address_to_bin(address)
        b == address_to_bin(netmask)
    IN  IF a.exc # "None" THEN a
        ELSE IF b.exc # "None" THEN b
        ELSE bin_to_address(SubSeq(a.val, 1, Min(Len(a.val), Len(b.val))))

\* CIDR.network(address, netmask): per-octet AND over the zipped binary octets
network(address, netmask) ==
    LET a == address_to_bin(address)
        b == address_to_bin(netmask)
    IN  IF a.exc # "None" THEN a
        ELSE IF b.exc # "None" THEN b
        ELSE LET len == Min(Len(a.val), Len(b.val))
             IN  IF \E i \in 1..len : int2(a.val[i]).exc # "None" \/ int2(b.val[i]).exc # "None"
                 THEN Raise("ValueError")
                 ELSE bin_to_address([i \in 1..len |->
                          bin8(BitAnd(int2(a.val[i]).val, int2(b.val[i]).val))])

\* CIDR.host_min(address): temp[3] = str(int(temp[3]))
host_min(address) ==
    LET temp == split(address, ".")
    IN  IF Len(temp) < 4 THEN Raise("IndexError")
        ELSE IF int(temp[4]).exc # "None" THEN Raise("ValueError")
        ELSE Ok(join([temp EXCEPT ![4] = str(int(temp[4]).val)], "."))

\* CIDR.host_max(address, wildcard): per-octet sum of address and wildcard
host_max(address, wildcard) ==
    LET tmpAddr == split(address, ".")
        tmpWild == split(wildcard, ".")
    IN  IF Len(tmpWild) < 4 THEN Raise("IndexError")
        ELSE IF int(tmpWild[4]).exc # "None" THEN Raise("ValueError")
        ELSE LET a == MapInt(tmpAddr)
                 w == MapInt([tmpWild EXCEPT ![4] = str(int(tmpWild[4]).val)])
             IN  IF a.exc # "None" THEN a
                 ELSE IF w.exc # "None" THEN w
                 ELSE Ok(list_to_string([i \in 1..Min(Len(a.val), Len(w.val)) |->
                                            a.val[i] + w.val[i]]))

\* num_hosts multiplying the wildcard octets themselves: len(range(0, e))
num_hosts_noplus(wildcard) ==
    LET tmpWild == MapInt(split(wildcard, "."))
    IN  IF tmpWild.exc # "None" THEN tmpWild
        ELSE LET ranges == [i \in 1..Len(tmpWild.val) |->
                               IF tmpWild.val[i] > 0 THEN tmpWild.val[i] ELSE 0]
                 numhosts == ReduceMul(ranges)
             IN  Ok(IF BigPositive(numhosts) THEN numhosts ELSE <<1>>)

\* CIDR.num_hosts(wildcard): product of len(range(0, e + 1)) over the octets
num_hosts(wildcard) ==
    LET tmpWild == MapInt(split(wildcard, "."))
    IN  IF tmpWild.exc # "None" THEN tmpWild
        ELSE LET ranges == [i \in 1..Len(tmpWild.val) |->
                               IF tmpWild.val[i] + 1 > 0 THEN tmpWild.val[i] + 1 ELSE 0]
                 numhosts == ReduceMul(ranges)
             IN  Ok(IF BigPositive(numhosts) THEN numhosts ELSE <<1>>)

\* a product whose first range varies fastest and whose last varies slowest
RECURSIVE product_first_fastest(_)
product_first_fastest(ranges) ==
    IF ranges = <<>> THEN << <<>> >>
    ELSE LET rest == product_first_fastest(Tail(ranges))
             lo == ranges[1][1]
             n == IF ranges[1][2] >= lo THEN ranges[1][2] - lo + 1 ELSE 0
             m == Len(rest)
         IN  [k \in 1..(n * m) |-> <<lo + ((k - 1) % n)>> \o rest[((k - 1) \div n) + 1]]

\* itertools.product(*ranges) for ranges given as <<first, last>> pairs:
\* the first range varies slowest, the last fastest
RECURSIVE product(_)
product(ranges) ==
    IF ranges = <<>> THEN << <<>> >>
    ELSE LET rest == product(Tail(ranges))
             lo == ranges[1][1]
             n == IF ranges[1][2] >= lo THEN ranges[1][2] - lo + 1 ELSE 0
             m == Len(rest)
         IN  [k \in 1..(n * m) |-> <<lo + ((k - 1) \div m)>> \o rest[((k - 1) % m) + 1]]

\* get_ip_list with range(i, j) in place of range(i, j + 1)
get_ip_list_exclusive(hostmin, hostmax) ==
    LET tmpmin == MapInt(split(hostmin, "."))
        tmpmax == MapInt(split(hostmax, "."))
    IN  IF tmpmin.exc # "None" THEN tmpmin
        ELSE IF tmpmax.exc # "None" THEN tmpmax
        ELSE LET ranges == [i \in 1..Min(Len(tmpmin.val), Len(tmpmax.val)) |->
                               <<tmpmin.val[i], tmpmax.val[i] - 1>>]
                 ips == product(ranges)
             IN  Ok([k \in 1..Len(ips) |-> list_to_string(ips[k])])

\* CIDR.get_ip_list(hostmin, hostmax)
get_ip_list(hostmin, hostmax) ==
    LET tmpmin == MapInt(split(hostmin, "."))
        tmpmax == MapInt(split(hostmax, "."))
    IN  IF tmpmin.exc # "None" THEN tmpmin
        ELSE IF tmpmax.exc # "None" THEN tmpmax
        ELSE LET ranges == [i \in 1..Min(Len(tmpmin.val), Len(tmpmax.val)) |->
                               <<tmpmin.val[i], tmpmax.val[i]>>]
                 ips == product(ranges)
             IN  Ok([k \in 1..Len(ips) |-> list_to_string(ips[k])])

\* ------------------------------------------------------------------------
\* class CIDR: the object and its two entry points
\* ------------------------------------------------------------------------

Attrs == {"base", "netmask", "wildcard", "binBase", "subnet", "hostmin",
          "hostmax", "total", "broadcast", "allips"}

\* a CIDR instance before __init__ has run: no attribute is set
NewObject ==
    [attrs |-> {}, base |-> <<>>, netmask |-> <<>>, wildcard |-> <<>>,
     binBase |-> <<>>, subnet |-> <<>>, hostmin |-> <<>>, hostmax |-> <<>>,
     total |-> <<>>, broadcast |-> <<>>, allips |-> <<>>]

\* self.a = v
SetAttr(obj, a, v) == [obj EXCEPT !.attrs = @ \cup {a}, ![a] = v]

\* the outcome of a method that catches its exceptions: the object as the
\* call left it and the exception it printed ("None" when it printed none)
Done(obj, e) == [self |-> obj, exc |-> e]

\* the attributes assigned after self.base, in the order of lines 42-50
\* (and of lines 59-67, which repeat them)
Assigned == <<"netmask", "wildcard", "binBase", "subnet", "hostmin", "hostmax",
              "total", "broadcast", "allips">>

\* the right-hand side of the assignment to self.a, read on the object o as
\* the preceding assignments left it
rhs(a, o, intMask) ==
    CASE a = "netmask" -> calculate_netmask(intMask)
      [] a = "wildcard" -> calculate_wildcard(intMask)
      [] a = "binBase" -> address_to_bin(o.base)
      [] a = "subnet" -> LET nw == network(o.base, o.netmask)
                         IN  IF nw.exc # "None" THEN nw ELSE Ok(list_to_string(nw.val))
      [] a = "hostmin" -> host_min(o.subnet)
      [] a = "hostmax" -> host_max(o.subnet, o.wildcard)
      [] a = "total" -> num_hosts(o.wildcard)
      [] a = "broadcast" -> host_min(o.hostmax)
      [] a = "allips" -> get_ip_list(o.hostmin, o.hostmax)

\* lines 42-50 from the k-th assignment on: the first exception ends the try
\* block with the attributes assigned so far, and the except clause prints it
\* (r is the value of the k-th right-hand side, evaluated once)
RECURSIVE init_from(_, _, _)
init_from(o, intMask, k) ==
    IF k > Len(Assigned) THEN Done(o, "None")
    ELSE CHOOSE done \in
             {IF r.exc # "None" THEN Done(o, r.exc)
              ELSE init_from(SetAttr(o, Assigned[k], r.val), intMask, k + 1) :
                  r \in {rhs(Assigned[k], o, intMask)}} : TRUE

\* CIDR.__init__(self, address)
CIDR_init(obj, address) ==
    LET idx == index(address, "/")
    IN  IF idx.exc # "None" THEN Done(obj, idx.exc)
        ELSE init_from(SetAttr(obj, "base", SubSeq(address, 1, idx.val)),
                       SubSeq(address, idx.val + 2, Len(address)), 1)

\* lines 59-67 from the k-th assignment on
RECURSIVE update_from(_, _, _)
update_from(o, intMask, k) ==
    IF k > Len(Assigned) THEN Done(o, "None")
    ELSE CHOOSE done \in
             {IF r.exc # "None" THEN Done(o, r.exc)
              ELSE update_from(SetAttr(o, Assigned[k], r.val), intMask, k + 1) :
                  r \in {rhs(Assigned[k], o, intMask)}} : TRUE

\* CIDR.update(self, address): the same assignments on an object that
\* already went through __init__
update(obj, address) ==
    LET idx == index(address, "/")
    IN  IF idx.exc # "None" THEN Done(obj, idx.exc)
        ELSE update_from(SetAttr(obj, "base", SubSeq(address, 1, idx.val)),
                         SubSeq(address, idx.val + 2, Len(address)), 1)

\* the values of the eight rows both branches of __str__ add, in order
Rows(obj) ==
    <<obj.base, obj.netmask, obj.wildcard, obj.broadcast, obj.subnet,
      obj.hostmin, obj.hostmax, BigStr(obj.total)>>

\* str() of a rich Table, which defines no __str__: the default text of an
\* object, "<rich.table.Table object at 0x", its address, ">". The address
\* is the one the allocator gave the object and differs from run to run: the
\* text is kept as the two parts around it.
ObjectRepr ==
    <<<<"<", "r", "i", "c", "h", ".", "t", "a", "b", "l", "e", ".", "T", "a", "b", "l", "e", " ">>
          \o <<"o", "b", "j", "e", "c", "t", " ", "a", "t", " ", "0", "x">>,
      <<">">>>>

\* CIDR.__str__(self): with arguments on the command line the PrettyTable
\* of the eight rows, kept as the row values; without, the eight rows are
\* added to a rich Table and the text returned is that of the Table object,
\* which shows none of them. Reading an attribute that was never set raises
\* in both branches.
str_CIDR(obj, argv) ==
    IF ~({"base", "netmask", "wildcard", "broadcast", "subnet", "hostmin",
          "hostmax", "total"} \subseteq obj.attrs)
    THEN Raise("AttributeError")
    ELSE IF Len(argv) > 1
    THEN Ok([kind |-> "table", row |-> Rows(obj)])
    ELSE Ok([kind |-> "repr", row |-> ObjectRepr])

\* ------------------------------------------------------------------------
\* Inputs
\* ------------------------------------------------------------------------

\* the text "o1.o2. ... .ok/n"
cidr(octets, n) == join([i \in 1..Len(octets) |-> str(octets[i])], ".") \o <<"/">> \o str(n)

\* largest prefix length of an IPv4 address
MaxPrefix == 32

\* host bits of the largest subnet given to a CIDR object
ObjHostBits == 2

\* host bits of the largest subnet whose address list is built on its own
MaxHostBits == 9

\* number of calls (__init__ and update) made on one object
MaxCalls == 2

\* number of lines of a batch on standard input
MaxBatch == 2

ObjAddrs == {<<192, 168, 0, 2>>, <<10, 0, 0, 5>>, <<172, 16, 255, 254>>}

WellFormedInputs == {cidr(o, n) : o \in ObjAddrs, n \in (MaxPrefix - ObjHostBits)..MaxPrefix}

\* prefix lengths outside [0,32]
BadPrefixInputs == {cidr(<<10, 0, 0, 1>>, 33), cidr(<<10, 0, 0, 1>>, 40)}

\* addresses that are not four octets in [0,255]
BadAddrInputs ==
    {cidr(<<300, 1, 1, 1>>, 30), cidr(<<10, 0, 0, 256>>, 32),
     cidr(<<10, 0, 0>>, 24), cidr(<<1, 2, 3>>, 8),
     cidr(<<1, 2, 3, 4, 5>>, 30), cidr(<<1, 2, 3, 4, 5>>, 40),
     cidr(<<-1, 2, 3, 4>>, 30), cidr(<<-32, 0, 0, 1>>, 30),
     <<"a", ".", "b", ".", "c", ".", "d", "/", "2", "4">>,
     <<"1", ".", ".", "2", ".", "3", "/", "2", "4">>}

\* no '/', nothing after it, or more than one
BadSyntaxInputs ==
    {<<>>, <<"1", "0", ".", "0", ".", "0", ".", "5">>,
     <<"1", "0", ".", "0", ".", "0", ".", "5", "/">>,
     <<"1", "0", ".", "0", ".", "0", ".", "5", "/", "2", "4", "/", "3">>,
     <<"1", "0", ".", "0", ".", "0", ".", "5", "/", "x">>}

\* texts int() accepts that are not plain digits: surrounding whitespace,
\* underscores between digits, digits of other scripts
LooseInputs ==
    {cidr(<<10, 0, 0, 5>>, 30) \o <<"\r">>,
     <<"1", "0", ".", "0", ".", "0", ".", "5", "/", " ", "3", "0">>,
     <<"1", "_", "0", ".", "0", ".", " ", "0", ".", "5", "/", "3", "_", "0">>,
     <<"1", "0", ".", "0", ".", "0", ".", "5", "/", "", "3", "0", "U+2003">>,
     <<"U+0661", "0", ".", "0", ".", "0", ".", "5", "/", "U+0663", "U+0660">>,
     <<"1", "0", ".", "0", ".", "0", ".", "5", "/", "U+0663", "U+0663">>,
     <<"1", "0", ".", "0", ".", "0", ".", "5", "/", "3", "_">>}

Inputs ==
    WellFormedInputs \cup BadPrefixInputs \cup BadAddrInputs \cup BadSyntaxInputs
        \cup LooseInputs

CalcOctets == {0, 165, 255}

CalcAddrs == {<<a, b, c, d>> : a \in CalcOctets, b \in CalcOctets, c \in CalcOctets, d \in CalcOctets}

\* ------------------------------------------------------------------------
\* State
\* ------------------------------------------------------------------------

VARIABLES
    self,      \* the CIDR object under construction and update
    exc,       \* the exception the last call on self printed, "None" if none
    arg,       \* the address text of the last call on self
    calls,     \* number of calls made on self
    calc,      \* one derivation, helper by helper, from a valid address and prefix
    proc       \* one run of the script: its inputs, locals, output and position

objVars == <<self, exc, arg, calls>>

vars == <<self, exc, arg, calls, calc, proc>>

CalcIdle ==
    [stage |-> 0, addr |-> <<>>, mask |-> <<>>, netmask |-> <<>>, wildcard |-> <<>>,
     subnet |-> <<>>, hostmin |-> <<>>, hostmax |-> <<>>, total |-> <<>>,
     broadcast |-> <<>>, allips |-> <<>>]

ObjIdle == self = NewObject /\ exc = "None" /\ arg = <<>> /\ calls = 0

ProcIdle ==
    [pc |-> "idle", isatty |-> TRUE, argv |-> <<>>, stdin |-> <<>>, stdin_ip |-> <<>>,
     ipLocation |-> 0, cidrIP |-> <<>>, it |-> 0, out |-> <<>>]

\* ------------------------------------------------------------------------
\* A CIDR object: CIDR(address), then update(address) any number of times
\* ------------------------------------------------------------------------

Init == ObjIdle /\ calc = CalcIdle /\ proc = ProcIdle

Construct(address) ==
    /\ calls = 0
    /\ \E r \in {CIDR_init(self, address)} : self' = r.self /\ exc' = r.exc
    /\ arg' = address
    /\ calls' = 1
    /\ UNCHANGED <<calc, proc>>

Update(address) ==
    /\ calls >= 1
    /\ calls < MaxCalls
    /\ \E r \in {update(self, address)} : self' = r.self /\ exc' = r.exc
    /\ arg' = address
    /\ calls' = calls + 1
    /\ UNCHANGED <<calc, proc>>

Next ==
    \/ \E address \in Inputs : Construct(address)
    \/ \E address \in Inputs : Update(address)

Spec == Init /\ [][Next]_vars

\* ------------------------------------------------------------------------
\* The helpers one after the other, as lines 42-50 call them, on every
\* address of CalcAddrs and every prefix length in [0,32]
\* ------------------------------------------------------------------------

InitCalc ==
    /\ ObjIdle
    /\ proc = ProcIdle
    /\ \E o \in CalcAddrs, n \in 0..MaxPrefix :
           calc = [CalcIdle EXCEPT !.addr = join([i \in 1..4 |-> str(o[i])], "."),
                                   !.mask = str(n)]

CalcNetmask ==
    /\ calc.stage = 0
    /\ calculate_netmask(calc.mask).exc = "None"
    /\ calc' = [calc EXCEPT !.stage = 1, !.netmask = calculate_netmask(calc.mask).val]
    /\ UNCHANGED <<objVars, proc>>

CalcWildcard ==
    /\ calc.stage = 1
    /\ calculate_wildcard(calc.mask).exc = "None"
    /\ calc' = [calc EXCEPT !.stage = 2, !.wildcard = calculate_wildcard(calc.mask).val]
    /\ UNCHANGED <<objVars, proc>>

CalcNetwork ==
    /\ calc.stage = 2
    /\ network(calc.addr, calc.netmask).exc = "None"
    /\ calc' = [calc EXCEPT !.stage = 3,
                            !.subnet = list_to_string(network(calc.addr, calc.netmask).val)]
    /\ UNCHANGED <<objVars, proc>>

CalcHostMin ==
    /\ calc.stage = 3
    /\ host_min(calc.subnet).exc = "None"
    /\ calc' = [calc EXCEPT !.stage = 4, !.hostmin = host_min(calc.subnet).val]
    /\ UNCHANGED <<objVars, proc>>

CalcHostMax ==
    /\ calc.stage = 4
    /\ host_max(calc.subnet, calc.wildcard).exc = "None"
    /\ calc' = [calc EXCEPT !.stage = 5, !.hostmax = host_max(calc.subnet, calc.wildcard).val]
    /\ UNCHANGED <<objVars, proc>>

CalcNumHosts ==
    /\ calc.stage = 5
    /\ num_hosts(calc.wildcard).exc = "None"
    /\ calc' = [calc EXCEPT !.stage = 6, !.total = num_hosts(calc.wildcard).val]
    /\ UNCHANGED <<objVars, proc>>

CalcBroadcast ==
    /\ calc.stage = 6
    /\ host_min(calc.hostmax).exc = "None"
    /\ calc' = [calc EXCEPT !.stage = 7, !.broadcast = host_min(calc.hostmax).val]
    /\ UNCHANGED <<objVars, proc>>

\* the address list is built for subnets of at most 2^MaxHostBits addresses
CalcIpList ==
    /\ calc.stage = 7
    /\ MaxPrefix - int(calc.mask).val <= MaxHostBits
    /\ LET ips == get_ip_list(calc.hostmin, calc.hostmax)
       IN  /\ ips.exc = "None"
           /\ calc' = [calc EXCEPT !.stage = 8, !.allips = ips.val]
    /\ UNCHANGED <<objVars, proc>>

NextCalc ==
    \/ CalcNetmask
    \/ CalcWildcard
    \/ CalcNetwork
    \/ CalcHostMin
    \/ CalcHostMax
    \/ CalcNumHosts
    \/ CalcBroadcast
    \/ CalcIpList

SpecCalc == InitCalc /\ [][NextCalc]_vars

\* ------------------------------------------------------------------------
\* The script: lines 171-195
\* ------------------------------------------------------------------------

prog == <<"n", "e", "t", "c", "i", "d", "e", "r", ".", "p", "y">>

dash_o == <<"-", "o">>

BatchLines ==
    {cidr(<<192, 168, 0, 2>>, 31), cidr(<<10, 0, 0, 5>>, 32),
     cidr(<<300, 1, 1, 1>>, 31), cidr(<<10, 0, 0>>, 24),
     <<"1", "0", ".", "0", ".", "0", ".", "5">>,
     cidr(<<10, 0, 0, 5>>, 32) \o <<"\r">>}

Batches == UNION {[1..n -> BatchLines] : n \in 1..MaxBatch}

\* the text on standard input: the lines, newline separated, with or
\* without a newline after the last one
StdinTexts == {join(b, "\n") : b \in Batches} \cup {join(b, "\n") \o <<"\n">> : b \in Batches}

ArgLines == {cidr(<<192, 168, 0, 2>>, 31), cidr(<<10, 0, 0>>, 24)}

TtyArgvs ==
    {<<prog>>, <<prog, dash_o>>}
        \cup {<<prog, a>> : a \in ArgLines}
        \cup {<<prog, dash_o, a>> : a \in ArgLines}
        \cup {<<prog, a, b>> : a \in ArgLines, b \in ArgLines}

PipeArgvs == {<<prog>>, <<prog, dash_o>>}

\* what one print() call, or the interpreter on an uncaught exception, writes
Printed(kind, e, row) == [kind |-> kind, exc |-> e, row |-> row]

\* the messages a constructor printed: one when it caught an exception
CaughtOutput(r) == IF r.exc = "None" THEN <<>> ELSE <<Printed("caught", r.exc, <<>>)>>

\* reduce(lambda x, y: x + y, [i if (val.find('.') > 0 and val.find('/')) > 0
\*                             else 0 for i, val in enumerate(sys.argv)])
RECURSIVE SumLocations(_, _)
SumLocations(argv, n) ==
    IF n = 0 THEN 0
    ELSE SumLocations(argv, n - 1)
         + (IF find(argv[n], ".") > 0 /\ find(argv[n], "/") > 0 THEN n - 1 ELSE 0)

InitMain ==
    /\ ObjIdle
    /\ calc = CalcIdle
    /\ \/ \E a \in TtyArgvs :
              proc = [ProcIdle EXCEPT !.pc = "start", !.isatty = TRUE, !.argv = a]
       \/ \E a \in PipeArgvs, t \in StdinTexts :
              proc = [ProcIdle EXCEPT !.pc = "start", !.isatty = FALSE, !.argv = a, !.stdin = t]

\* lines 172-178: read standard input when it is not a terminal, else look
\* for the address among the arguments
Start ==
    /\ proc.pc = "start"
    /\ proc' = IF ~proc.isatty
               THEN [proc EXCEPT !.pc = "build", !.stdin_ip = split(proc.stdin, "\n")]
               ELSE [proc EXCEPT !.pc = "build",
                                 !.ipLocation = SumLocations(proc.argv, Len(proc.argv))]
    /\ UNCHANGED <<objVars, calc>>

\* lines 180-181: cidrIP.append(CIDR(sys.argv[ipLocation]))
BuildArg ==
    /\ proc.pc = "build"
    /\ proc.ipLocation > 0
    /\ proc' = IF proc.ipLocation >= Len(proc.argv)
               THEN [proc EXCEPT !.pc = "crashed",
                                 !.out = @ \o <<Printed("traceback", "IndexError", <<>>)>>]
               ELSE CHOOSE p \in
                        {[proc EXCEPT !.pc = "print", !.it = 0,
                                      !.cidrIP = Append(@, r.self),
                                      !.out = @ \o CaughtOutput(r)] :
                             r \in {CIDR_init(NewObject, proc.argv[proc.ipLocation + 1])}} : TRUE
    /\ UNCHANGED <<objVars, calc>>

\* lines 182-184: one iteration of for ip in stdin_ip: cidrIP.append(CIDR(ip))
BuildLine ==
    /\ proc.pc = "build"
    /\ ~(proc.ipLocation > 0)
    /\ ~proc.isatty
    /\ proc.it < Len(proc.stdin_ip)
    /\ \E r \in {CIDR_init(NewObject, proc.stdin_ip[proc.it + 1])} :
           LET last == proc.it + 1 = Len(proc.stdin_ip)
           IN  proc' = [proc EXCEPT !.pc = IF last THEN "print" ELSE "build",
                                    !.it = IF last THEN 0 ELSE proc.it + 1,
                                    !.cidrIP = Append(@, r.self),
                                    !.out = @ \o CaughtOutput(r)]
    /\ UNCHANGED <<objVars, calc>>

\* lines 185-187: usage(); sys.exit()
Usage ==
    /\ proc.pc = "build"
    /\ ~(proc.ipLocation > 0)
    /\ proc.isatty
    /\ proc' = [proc EXCEPT !.pc = "exit", !.out = @ \o <<Printed("usage", "None", <<>>)>>]
    /\ UNCHANGED <<objVars, calc>>

\* lines 189-195: one iteration of for cidrItem in cidrIP: print(str(cidrItem)),
\* the same with and without -o; an exception of __str__ is not caught
PrintItem ==
    /\ proc.pc = "print"
    /\ proc.it < Len(proc.cidrIP)
    /\ \E t \in {str_CIDR(proc.cidrIP[proc.it + 1], proc.argv)} :
           LET last == proc.it + 1 = Len(proc.cidrIP)
           IN  proc' = IF t.exc # "None"
                       THEN [proc EXCEPT !.pc = "crashed",
                                         !.out = @ \o <<Printed("traceback", t.exc, <<>>)>>]
                       ELSE [proc EXCEPT !.pc = IF last THEN "exit" ELSE "print",
                                         !.it = proc.it + 1,
                                         !.out = @ \o <<Printed(t.val.kind, "None", t.val.row)>>]
    /\ UNCHANGED <<objVars, calc>>

NextMain ==
    \/ Start
    \/ BuildArg
    \/ BuildLine
    \/ Usage
    \/ PrintItem

SpecMain == InitMain /\ [][NextMain]_vars

\* ------------------------------------------------------------------------
\* Vocabulary of the properties
\* ------------------------------------------------------------------------

\* the octets of a dotted text whose segments are all decimal
Octets(s) == MapInt(split(s, ".")).val

IsAddress(s) ==
    LET o == MapInt(split(s, "."))
    IN  /\ o.exc = "None"
        /\ Len(o.val) = 4
        /\ \A i \in 1..4 : o.val[i] \in 0..255

\* the 8 bits of an octet and the 32 bits of an address, most significant first
Bits8(o) == [i \in 1..8 |-> (o \div (2 ^ (8 - i))) % 2]

Bits32(s) == LET o == Octets(s) IN Bits8(o[1]) \o Bits8(o[2]) \o Bits8(o[3]) \o Bits8(o[4])

And32(x, y) == [i \in 1..32 |-> IF x[i] = 1 /\ y[i] = 1 THEN 1 ELSE 0]

Or32(x, y) == [i \in 1..32 |-> IF x[i] = 1 \/ y[i] = 1 THEN 1 ELSE 0]

Not32(x) == [i \in 1..32 |-> 1 - x[i]]

\* the 32-bit word whose n most significant bits are set
PrefixBits(n) == [i \in 1..32 |-> IF i <= n THEN 1 ELSE 0]

\* an address as a 32-bit integer, held as two 16-bit halves <<high, low>>
Val32(s) == LET o == Octets(s) IN <<o[1] * 256 + o[2], o[3] * 256 + o[4]>>

Less32(x, y) == x[1] < y[1] \/ (x[1] = y[1] /\ x[2] < y[2])

Add32(x, j) == <<x[1] + ((x[2] + j) \div 65536), (x[2] + j) % 65536>>

\* 2^k in decimal digits, by repeated doubling
RECURSIVE DoubleCarry(_, _)
DoubleCarry(a, c) ==
    IF a = <<>> THEN (IF c = 0 THEN <<>> ELSE <<c>>)
    ELSE <<(a[1] + a[1] + c) % 10>> \o DoubleCarry(Tail(a), (a[1] + a[1] + c) \div 10)

RECURSIVE Pow2Big(_)
Pow2Big(k) == IF k = 0 THEN <<1>> ELSE DoubleCarry(Pow2Big(k - 1), 0)

\* the value of a digit sequence that fits a machine integer
RECURSIVE BigVal(_)
BigVal(a) == IF a = <<>> THEN 0 ELSE a[1] + 10 * BigVal(Tail(a))

\* the prefix length of the derivation in calc
CalcN == int(calc.mask).val

\* the text before the first '/' and the text after it
AddrPart(a) == SubSeq(a, 1, find(a, "/"))

MaskPart(a) == SubSeq(a, find(a, "/") + 2, Len(a))

\* four segments of decimal digits, each in [0,255]
WellFormedAddr(t) ==
    LET segs == split(t, ".")
    IN  /\ Len(segs) = 4
        /\ \A i \in 1..4 : /\ segs[i] # <<>>
                           /\ \A j \in 1..Len(segs[i]) : IsDigit(segs[i][j])
                           /\ DecVal(segs[i]) <= 255

\* an integer in [0,32]
WellFormedMask(t) ==
    /\ t # <<>>
    /\ \A j \in 1..Len(t) : IsDigit(t[j])
    /\ DecVal(t) <= MaxPrefix

WellFormedLine(a) == find(a, "/") >= 0 /\ WellFormedAddr(AddrPart(a)) /\ WellFormedMask(MaskPart(a))

\* ------------------------------------------------------------------------
\* Properties
\* ------------------------------------------------------------------------

DerivedAttrs == Attrs \ {"base"}

\* C1: constructing a CIDR from "a.b.c.d/n" with an integer n outside [0,32]
\* ends in an error, and no netmask, wildcard or later field is set.
C1_PrefixOutOfRangeIsAnError ==
    (/\ calls = 1
     /\ find(arg, "/") >= 0
     /\ int(MaskPart(arg)).exc = "None"
     /\ int(MaskPart(arg)).val \notin 0..MaxPrefix)
        => (exc # "None" /\ self.attrs \cap DerivedAttrs = {})

\* C2: constructing a CIDR whose address part is not four decimal segments
\* in [0,255] ends in an error, and no subnet, hostmin or hostmax is set.
C2_BadAddressIsAnError ==
    (/\ calls = 1
     /\ find(arg, "/") >= 0
     /\ ~WellFormedAddr(AddrPart(arg)))
        => (exc # "None" /\ self.attrs \cap {"subnet", "hostmin", "hostmax"} = {})

\* C3: after every call the object has either all of its fields, derived
\* from the text of that call, or the call failed and changed no field.
C3_NeverPartiallyPopulated ==
    [][/\ self'.attrs \in {{}, Attrs}
       /\ exc' # "None" => self' = self
       /\ exc' = "None" => self' = CIDR_init(NewObject, arg').self]_vars

TablesPrinted == SelectSeq(proc.out, LAMBDA e : e.kind = "table")

WellFormedLinesRead == SelectSeq(proc.stdin_ip, WellFormedLine)

\* the rows of the table of a well-formed line
TableOf(line) == Rows(CIDR_init(NewObject, line).self)

\* a is b with some elements left out
RECURSIVE Embeds(_, _)
Embeds(a, b) ==
    IF a = <<>> THEN TRUE
    ELSE IF b = <<>> THEN FALSE
    ELSE IF a[1] = b[1] THEN Embeds(Tail(a), Tail(b))
    ELSE Embeds(a, Tail(b))

\* C4: when a batch of lines has been processed, the script has not ended
\* with an uncaught exception and has printed the table of every well-formed
\* line, in input order, whatever malformed lines the batch holds.
C4_BatchSurvivesMalformedLine ==
    (~proc.isatty /\ proc.pc \in {"exit", "crashed"})
        => /\ proc.pc = "exit"
           /\ Embeds([i \in 1..Len(WellFormedLinesRead) |-> TableOf(WellFormedLinesRead[i])],
                     [i \in 1..Len(TablesPrinted) |-> TablesPrinted[i].row])

\* C5: for a valid address and prefix length, hostmax and broadcast both
\* equal (base AND netmask) OR wildcard as 32-bit values, with every octet
\* in [0,255]; for /32, broadcast, subnet, hostmin and hostmax coincide.
C5_HostMaxIsNetworkOrWildcard ==
    calc.stage >= 7 =>
        LET expect == Or32(And32(Bits32(calc.addr), Bits32(calc.netmask)), Bits32(calc.wildcard))
        IN  /\ IsAddress(calc.hostmax)
            /\ IsAddress(calc.broadcast)
            /\ Bits32(calc.hostmax) = expect
            /\ Bits32(calc.broadcast) = expect
            /\ CalcN = 32 => /\ calc.broadcast = calc.subnet
                             /\ calc.hostmin = calc.subnet
                             /\ calc.hostmax = calc.subnet

C5_Witness ==
    /\ calc.stage >= 7
    /\ CalcN = 20
    /\ calc.addr = <<"2", "5", "5", ".", "1", "6", "5", ".", "1", "6", "5", ".", "2", "5", "5">>
    /\ calc.hostmax = <<"2", "5", "5", ".", "1", "6", "5", ".", "1", "7", "5", ".", "2", "5", "5">>

\* C6: the list of get_ip_list(hostmin, hostmax) has num_hosts(wildcard)
\* elements, starts with hostmin, ends with hostmax, and is strictly
\* increasing when its elements are read as 32-bit integers.
C6_ListLengthEndsAndOrder ==
    calc.stage = 8 =>
        /\ Len(calc.allips) = BigVal(calc.total)
        /\ calc.allips[1] = calc.hostmin
        /\ calc.allips[Len(calc.allips)] = calc.hostmax
        /\ LET v == [k \in 1..Len(calc.allips) |-> Val32(calc.allips[k])]
           IN  \A k \in 1..(Len(v) - 1) : Less32(v[k], v[k + 1])

C6_Witness ==
    /\ calc.stage = 8
    /\ CalcN = 23
    /\ Len(calc.allips) = 512
    /\ calc.allips[256] # calc.allips[257]
    /\ Octets(calc.allips[256])[3] + 1 = Octets(calc.allips[257])[3]

\* C7: for every prefix length n in [0,32] the host count is 2^(32-n):
\* 256 for /24, 65536 for /16, 1 for /32, 4294967296 for /0; never 0.
C7_TotalIsPowerOfTwo ==
    calc.stage >= 6 =>
        /\ calc.total = Pow2Big(32 - CalcN)
        /\ BigPositive(calc.total)
        /\ CalcN = 24 => BigStr(calc.total) = <<"2", "5", "6">>
        /\ CalcN = 16 => BigStr(calc.total) = <<"6", "5", "5", "3", "6">>
        /\ CalcN = 32 => BigStr(calc.total) = <<"1">>
        /\ CalcN = 0 => BigStr(calc.total) = <<"4", "2", "9", "4", "9", "6", "7", "2", "9", "6">>

C7_Witness ==
    /\ calc.stage >= 6
    /\ CalcN = 0
    /\ calc.total = <<6, 9, 2, 7, 6, 9, 4, 9, 2, 4>>

\* C8: for every prefix length n in [0,32] the wildcard is the 32-bit
\* complement of the netmask: their OR is all ones and their AND is zero.
C8_WildcardIsComplement ==
    calc.stage >= 2 =>
        /\ IsAddress(calc.netmask)
        /\ IsAddress(calc.wildcard)
        /\ Bits32(calc.wildcard) = Not32(Bits32(calc.netmask))
        /\ Or32(Bits32(calc.netmask), Bits32(calc.wildcard)) = [i \in 1..32 |-> 1]
        /\ And32(Bits32(calc.netmask), Bits32(calc.wildcard)) = [i \in 1..32 |-> 0]

C8_Witness ==
    /\ calc.stage >= 2
    /\ CalcN = 19
    /\ calc.netmask = <<"2", "5", "5", ".", "2", "5", "5", ".", "2", "2", "4", ".", "0">>
    /\ calc.wildcard = <<"0", ".", "0", ".", "3", "1", ".", "2", "5", "5">>

\* C9: for every prefix length n in [0,32] the netmask is the 32-bit value
\* with its n most significant bits set and the others clear, whatever the
\* address: 0.0.0.0 for /0, 255.255.255.252 for /30, 255.255.255.255 for /32.
C9_NetmaskHasPrefixBits ==
    calc.stage >= 1 =>
        /\ IsAddress(calc.netmask)
        /\ Bits32(calc.netmask) = PrefixBits(CalcN)
        /\ CalcN = 0 => calc.netmask = <<"0", ".", "0", ".", "0", ".", "0">>
        /\ CalcN = 30 => calc.netmask
               = <<"2", "5", "5", ".", "2", "5", "5", ".", "2", "5", "5", ".", "2", "5", "2">>
        /\ CalcN = 32 => calc.netmask
               = <<"2", "5", "5", ".", "2", "5", "5", ".", "2", "5", "5", ".", "2", "5", "5">>

C9_Witness ==
    /\ calc.stage = 1
    /\ CalcN = 30
    /\ calc.netmask = <<"2", "5", "5", ".", "2", "5", "5", ".", "2", "5", "5", ".", "2", "5", "2">>

\* C10: the addresses of allips are exactly the 32-bit addresses x with
\* (x AND netmask) = subnet: the integers from subnet to broadcast, each
\* once, none missing and none outside.
C10_ListIsTheSubnet ==
    calc.stage = 8 =>
        LET ips == {calc.allips[k] : k \in 1..Len(calc.allips)}
            size == BigVal(Pow2Big(32 - CalcN))
            mask == Bits32(calc.netmask)
            net == Bits32(calc.subnet)
        IN  /\ \A x \in ips : IsAddress(x) /\ And32(Bits32(x), mask) = net
            /\ Cardinality(ips) = Len(calc.allips)
            /\ {Val32(x) : x \in ips} = {Add32(Val32(calc.subnet), j) : j \in 0..(size - 1)}
            /\ Add32(Val32(calc.subnet), size - 1) = Val32(calc.broadcast)

C10_Witness ==
    /\ calc.stage = 8
    /\ CalcN = 23
    /\ calc.subnet = <<"1", "6", "5", ".", "2", "5", "5", ".", "1", "6", "4", ".", "0">>
    /\ calc.broadcast = <<"1", "6", "5", ".", "2", "5", "5", ".", "1", "6", "5", ".", "2", "5", "5">>
    /\ Cardinality({calc.allips[k] : k \in 1..Len(calc.allips)}) = 512

============================================================================
